---- MODULE Spec2Model ----
(***************************************************************************)
(* vidstream-server: the session orchestration layer of the Bun server     *)
(* (websocket dispatcher, startStream / killStream, keep-alive reaper,     *)
(* process exit handling, process-level error handlers).                   *)
(*                                                                         *)
(* One JavaScript thread runs every handler.  A handler runs without       *)
(* interruption up to an `await` that waits for real I/O (the country      *)
(* lookup `fetch`, `mkdir` in startStream, `rmdir` in killStream, the 10 s *)
(* timer of the exit handler); there it suspends and any other handler may *)
(* run.  Each action below is one such uninterrupted piece.  An `await` of *)
(* an async function that does no I/O (RegexCheck.username, the return of  *)
(* startStream) resumes in the same turn and does not split an action.     *)
(*                                                                         *)
(* The handler of process.on("unhandledRejection") suspends in killStream's *)
(* rmdir once per subprocess it kills.  Handlers that were already          *)
(* suspended may resume during those waits and a subprocess may end; after  *)
(* server.stop() no new message, connection or upload is taken up, and a    *)
(* second rejection during the shutdown is left out.  Of the two timers the *)
(* 60 s orphan sweep is followed into the shutdown (SpecOrphans); a         *)
(* keep-alive sweep that starts during the shutdown is left out.  The loops *)
(* over global.ffmpegProcesses reach every entry, in an order the model     *)
(* leaves open.                                                             *)
(*                                                                         *)
(* Time is counted in units of MAX_KEEP_ALIVE's default (one hour).        *)
(* rmdir(..., {recursive, force}) of a missing directory is a no-op.       *)
(***************************************************************************)
EXTENDS Integers, Sequences, FiniteSets, Bags, TLC

\* ------------------------------------------------------------- bounds
MaxStreams == 2
MaxConns == 2
MaxProcs == 3
MaxTasks == 2
MaxTime == 2
MaxMsgs == 4
MaxOrphanMsgs == 6
MaxNameLen == 21

\* ---------------------------------------------------- program constants
\* the idle threshold, in hours
MAX_KEEP_ALIVE == 1

\* ------------------------------------------------------------- values
\* a missing JSON field / JavaScript undefined
NoVal == "undefined"

StreamName == <<"s1", "s2", "s3", "s4">>
\* the ids generateRandomString can hand out to uploads
Ids == {StreamName[i] : i \in 1..MaxStreams}
\* an id no upload ever got
DeadBeef == "deadbeef"
\* the host secret of a session (generateRandomString(16), one per upload)
Token(id) == <<"token", id>>
NoToken == <<"token", NoVal>>
BadToken == <<"token", "wrong">>

Conns == 1..MaxConns
Pids == 1..MaxProcs

\* usernames as sequences of character classes: L letter, N digit,
\* S space, P one of . - _ @, X anything else
CharClasses == {"L", "N", "S", "P", "X"}
NoName == <<>>
Alice == <<"L", "L", "L">>
Bob == <<"L", "N", "P">>
TooShort == <<"L", "L">>
BadChars == <<"L", "X", "L">>
\* what the peer of socket c may send as its username
ValidName(c) == IF c % 2 = 1 THEN Alice ELSE Bob
Usernames(c) == {NoName, ValidName(c), TooShort, BadChars}

\* a check without the upper bound of the quantifier
RegexCheckUsernameNoMax(u) ==
    /\ Len(u) >= 3
    /\ \A i \in 1..Len(u) : u[i] \in {"L", "N", "S", "P"}

\* RegexCheck.username: /^[\p{L}\p{N} .\-@_]{3,20}$/u
RegexCheckUsername(u) ==
    /\ Len(u) >= 3
    /\ Len(u) <= 20
    /\ \A i \in 1..Len(u) : u[i] \in {"L", "N", "S", "P"}

VARIABLES
    scope,              \* what the environment of this run may do (fixed at start)
    now,                \* Date.now()
    service,            \* "up", "stopping" in the fatal handler, "down" after process.exit(1)
    killing,            \* the id whose killStream the fatal handler is suspended in
    rejection,          \* what threw the unhandled rejection that ended the service
    created,            \* ids handed out by /upload so far
    streams,            \* global.streams: the keys, in insertion order
    obj,                \* the stream object of each id: state, keepAlive
    dirs,               \* ids whose working directory exists on disk
    ffmpegProcesses,    \* global.ffmpegProcesses: id -> subprocess
    proc,               \* every subprocess: its session id and status
    conn,               \* each websocket: "new", "open" or "closed"
    topics,             \* Bun's pub/sub: the topics each websocket is subscribed to
    websocketClients,   \* the connection table: ws -> client
    tasks,              \* suspended message handlers (a bag)
    sent,               \* how many inbound messages the server has been handed
    accepted,           \* the sockets that had a subscribe accepted (history)
    reaper,             \* the keep-alive sweep: idle, or suspended in killStream
    orphans,            \* the orphan sweep: idle, or suspended in killStream
    res,                \* the answer to the last GET /:streamID/:segment
    video,              \* the last upload: what ffprobe reported, and the quality chosen
    inp,                \* the event the last step handled
    out                 \* what the last step sent to each websocket

vars == <<scope, now, service, killing, rejection, created, streams, obj, dirs, ffmpegProcesses,
          proc, conn, topics, websocketClients, tasks, sent, accepted, reaper, orphans, res,
          video, inp, out>>

\* ------------------------------------------------------------ messages
\* server -> client JSON objects; kind tells the three shapes apart
Msg(kind, success, type, cause, message, username, host, country, stream, state, viewers) ==
    [kind |-> kind, success |-> success, type |-> type, cause |-> cause,
     message |-> message, username |-> username, host |-> host, country |-> country,
     stream |-> stream, state |-> state, viewers |-> viewers]

Failure(type, cause) ==
    Msg("reply", FALSE, type, cause, NoVal, NoName, FALSE, NoVal, NoVal, NoVal, 0)

Success(type, message) ==
    Msg("reply", TRUE, type, NoVal, message, NoName, FALSE, NoVal, NoVal, NoVal, 0)

\* a chat broadcast that leaves the sender's host flag and country out
ChatBare(type, client, body) ==
    Msg("chat", TRUE, type, NoVal, body, client.username, FALSE, NoVal, NoVal, NoVal, 0)

Chat(type, client, body) ==
    Msg("chat", TRUE, type, NoVal, body, client.username, client.host, client.country,
        NoVal, NoVal, 0)

Info(id, state, viewers) ==
    Msg("info", TRUE, "info", NoVal, NoVal, NoName, FALSE, NoVal, id, state, viewers)

\* The event a step handles, with what the handler found when it began: the
\* sender's entry in websocketClients (role) and the session's state (was)
Role(ws) ==
    IF ws \notin DOMAIN websocketClients THEN "none"
    ELSE IF websocketClients[ws].host THEN "host" ELSE "viewer"

Was(stream) == IF stream \in Ids THEN obj[stream].state ELSE NoVal

Event(op, ws, stream, username, token, type, message) ==
    [op |-> op, ws |-> ws, stream |-> stream, username |-> username,
     token |-> token, type |-> type, message |-> message,
     role |-> Role(ws), was |-> Was(stream)]

NoEvent == Event("none", 0, NoVal, NoName, NoToken, NoVal, NoVal)
Internal(op, id) == Event(op, 0, id, NoName, NoToken, NoVal, NoVal)

Silence == [c \in Conns |-> {}]

\* ws.send(m): a closed socket drops it
Send(c, m) == [Silence EXCEPT ![c] = IF conn[c] = "open" THEN {m} ELSE {}]

\* the websockets subscribed to topic id (ws.subscribe; a close unsubscribes)
Subscribers(id) == {c \in Conns : conn[c] = "open" /\ id \in topics[c]}

\* a publish that walks websocketClients instead of the topic
PublishToClients(id, m) ==
    [c \in Conns |->
        IF c \in DOMAIN websocketClients /\ websocketClients[c].stream = id /\ conn[c] = "open"
        THEN {m} ELSE {}]

\* server.publish(id, m): every subscriber of the topic, the sender included
Publish(id, m) == [c \in Conns |-> IF c \in Subscribers(id) THEN {m} ELSE {}]

\* ------------------------------------------------------- the stream Map
Has(id) == \E i \in 1..Len(streams) : streams[i] = id
MapSet(seq, id) == IF \E i \in 1..Len(seq) : seq[i] = id THEN seq ELSE Append(seq, id)
MapDelete(seq, id) == SelectSeq(seq, LAMBDA x : x # id)

\* a deleted key that is set again is appended: an ongoing iteration meets it again
Forget(id) == [reaper EXCEPT !.visited = @ \ {id}]

EmptyMap == [x \in {} |-> 0]
Without(f, id) == [k \in DOMAIN f \ {id} |-> f[k]]
With(f, k, v) == [x \in DOMAIN f \cup {k} |-> IF x = k THEN v ELSE f[x]]

Up == service = "up"
\* the process has not exited: suspended handlers may still resume
Running == service # "down"
Open(c) == Up /\ conn[c] = "open"
\* websocket.message is called with the next message of socket c
Recv(c) == Open(c) /\ sent < scope.msgs /\ sent' = sent + 1 /\ UNCHANGED <<scope, video, res>>

InFlight == BagCardinality(tasks)
Spawned == {p \in Pids : proc[p].status # "unborn"}
\* suspended handlers of one kind, counted with their multiplicity
KindSum(S, kind) == BagCardinality([t \in {u \in S : u.kind = kind} |-> tasks[t]])
CopiesInKind(kind) == KindSum(BagToSet(tasks), kind)

ReaperIdle == [pc |-> "idle", visited |-> {}, cur |-> NoVal, key |-> NoVal, viewers |-> 0]
OrphansIdle == [pc |-> "idle", visited |-> {}, cur |-> NoVal]

\* the Response of the segment route: its status (0 while the handler is
\* suspended) and whether the handler has gone to the filesystem
NoResponse == [status |-> 0, fs |-> FALSE]

\* global.ffmpegProcesses.set(id, ...) of a key the Map does not hold appends
\* it: an iteration under way has it still ahead
Appended(id) ==
    [orphans EXCEPT !.visited = IF id \in DOMAIN ffmpegProcesses THEN @ ELSE @ \ {id}]

\* ------------------------------------------------ the target resolution
\* utilities: the pixel counts of the supported tiers
resolutions ==
    [t \in {"8k", "4k", "1440p", "1080p", "720p"} |->
        CASE t = "8k" -> 7680 * 4320
          [] t = "4k" -> 3840 * 2160
          [] t = "1440p" -> 2560 * 1440
          [] t = "1080p" -> 1920 * 1080
          [] t = "720p" -> 1280 * 720]

\* resolutions[process.env.MAX_RESOLUTION] || resolutions["1080p"]
maxResolution == scope.maxResolution

\* a choice that forgets to turn the tier of a portrait source
getBestQualityLandscape(width, height) ==
    LET w == IF width < height THEN height ELSE width
        h == IF width < height THEN width ELSE height
    IN  IF maxResolution >= resolutions["8k"] /\ w >= 7680 /\ h >= 4320
        THEN [width |-> 7680, height |-> 4320]
        ELSE IF maxResolution >= resolutions["4k"] /\ w >= 3840 /\ h >= 2160
        THEN [width |-> 3840, height |-> 2160]
        ELSE IF maxResolution >= resolutions["1440p"] /\ w >= 2560 /\ h >= 1440
        THEN [width |-> 2560, height |-> 1440]
        ELSE IF maxResolution >= resolutions["1080p"] /\ w >= 1920 /\ h >= 1080
        THEN [width |-> 1920, height |-> 1080]
        ELSE [width |-> 1280, height |-> 720]

\* getBestQuality(width, height)
getBestQuality(width, height) ==
    LET isPortrait == width < height
        w == IF isPortrait THEN height ELSE width
        h == IF isPortrait THEN width ELSE height
        resolution ==
            IF maxResolution >= resolutions["8k"] /\ w >= 7680 /\ h >= 4320
            THEN [width |-> 7680, height |-> 4320]
            ELSE IF maxResolution >= resolutions["4k"] /\ w >= 3840 /\ h >= 2160
            THEN [width |-> 3840, height |-> 2160]
            ELSE IF maxResolution >= resolutions["1440p"] /\ w >= 2560 /\ h >= 1440
            THEN [width |-> 2560, height |-> 1440]
            ELSE IF maxResolution >= resolutions["1080p"] /\ w >= 1920 /\ h >= 1080
            THEN [width |-> 1920, height |-> 1080]
            ELSE [width |-> 1280, height |-> 720]
    IN  IF isPortrait
        THEN [width |-> resolution.height, height |-> resolution.width]
        ELSE resolution

NoVideo == [width |-> 0, height |-> 0, quality |-> [width |-> 0, height |-> 0]]

TypeOK ==
    /\ now \in 0..MaxTime
    /\ service \in {"up", "stopping", "down"}
    /\ killing \in Ids \cup {NoVal}
    /\ rejection \in {"none", "json", "lookup", "spawn"}
    /\ created \subseteq Ids
    /\ \A i \in 1..Len(streams) : streams[i] \in created
    /\ dirs \subseteq Ids
    /\ DOMAIN ffmpegProcesses \subseteq Ids
    /\ \A c \in Conns : conn[c] \in {"new", "open", "closed"}
    /\ DOMAIN websocketClients \subseteq Conns

\* The runs explored: either every socket and no passing of time, or the
\* passing of time and one socket less
Scopes ==
    {[conns |-> MaxConns, time |-> 0, procs |-> MaxProcs - 1, msgs |-> MaxMsgs,
      maxResolution |-> resolutions["1080p"]],
     [conns |-> MaxConns - 1, time |-> MaxTime, procs |-> MaxProcs - 1, msgs |-> MaxMsgs,
      maxResolution |-> resolutions["1080p"]]}

\* the state after the module has been loaded, for a run of scope sc
Start(sc) ==
    /\ scope = sc
    /\ now = 0
    /\ service = "up"
    /\ killing = NoVal
    /\ rejection = "none"
    /\ created = {}
    /\ streams = <<>>
    /\ obj = [id \in Ids |-> [state |-> "stopped", keepAlive |-> 0]]
    /\ dirs = {}
    /\ ffmpegProcesses = EmptyMap
    /\ proc = [p \in Pids |-> [id |-> NoVal, status |-> "unborn", host |-> FALSE]]
    /\ conn = [c \in Conns |-> "new"]
    /\ topics = [c \in Conns |-> {}]
    /\ websocketClients = EmptyMap
    /\ tasks = EmptyBag
    /\ sent = 0
    /\ accepted = {}
    /\ reaper = ReaperIdle
    /\ orphans = OrphansIdle
    /\ res = NoResponse
    /\ video = NoVideo
    /\ inp = NoEvent
    /\ out = Silence

Init == \E sc \in Scopes : Start(sc)

\* ------------------------------------------------- time, uploads, sockets
Tick ==
    /\ Up
    /\ now < scope.time
    /\ now' = now + 1
    /\ inp' = NoEvent
    /\ out' = Silence
    /\ UNCHANGED <<scope, video, res, sent, accepted, service, killing, rejection, created, streams, obj, dirs, ffmpegProcesses,
                   proc, conn, topics, websocketClients, tasks, reaper, orphans>>

\* POST /upload of a video of width x height, from getBestQuality on: the
\* quality for the stream object, then global.streams.set of a fresh id,
\* state "stopped"
UploadVideo(width, height) ==
    /\ Up
    /\ Cardinality(created) < MaxStreams
    /\ video' = [width |-> width, height |-> height, quality |-> getBestQuality(width, height)]
    /\ LET id == StreamName[Cardinality(created) + 1] IN
        /\ created' = created \cup {id}
        /\ dirs' = dirs \cup {id}
        /\ obj' = [obj EXCEPT ![id] = [state |-> "stopped", keepAlive |-> now]]
        /\ streams' = MapSet(streams, id)
        /\ inp' = Internal("upload", id)
    /\ out' = Silence
    /\ UNCHANGED <<scope, res, sent, accepted, now, orphans, service, killing, rejection, ffmpegProcesses, proc, conn, topics,
                   websocketClients, tasks, reaper>>

\* the uploads of Spec are all of one full-HD landscape video
Upload == UploadVideo(1920, 1080)

\* websocket.open(ws): a new socket is not in websocketClients
Connect(c) ==
    /\ Up
    /\ conn[c] = "new"
    /\ c <= scope.conns
    /\ \A d \in Conns : d < c => conn[d] # "new"
    /\ conn' = [conn EXCEPT ![c] = "open"]
    /\ inp' = Event("open", c, NoVal, NoName, NoToken, NoVal, NoVal)
    /\ out' = Silence
    /\ UNCHANGED <<scope, video, res, sent, accepted, now, orphans, service, killing, rejection, created, streams, obj, dirs,
                   ffmpegProcesses, proc, topics, websocketClients, tasks, reaper>>

\* websocket.close(ws), and Bun dropping the socket from its topics
CloseEffects(c) ==
    /\ conn' = [conn EXCEPT ![c] = "closed"]
    /\ topics' = [topics EXCEPT ![c] = {}]
    /\ websocketClients' = IF c \in DOMAIN websocketClients
                           THEN Without(websocketClients, c)
                           ELSE websocketClients

\* the peer disconnects
Close(c) ==
    /\ Open(c)
    /\ CloseEffects(c)
    /\ inp' = Event("close", c, NoVal, NoName, NoToken, NoVal, NoVal)
    /\ out' = Silence
    /\ UNCHANGED <<scope, video, res, sent, accepted, now, orphans, service, killing, rejection, created, streams, obj, dirs,
                   ffmpegProcesses, proc, tasks, reaper>>

\* ------------------------------------------------------------ killStream
\* killStream(id, streamPath) up to its `await rmdir`: the kill and the
\* ffmpegProcesses.delete happen only if `id` is a key of ffmpegProcesses
\* a kill that, finding no handle under the key, kills every subprocess
ProcAfterKillAll(key) ==
    IF key \in DOMAIN ffmpegProcesses
    THEN [proc EXCEPT ![ffmpegProcesses[key]].status = IF @ = "running" THEN "exited" ELSE @]
    ELSE [p \in Pids |-> [proc[p] EXCEPT !.status = IF @ = "running" THEN "exited" ELSE @]]

ProcAfterKill(key) ==
    IF key \in DOMAIN ffmpegProcesses
    THEN [proc EXCEPT ![ffmpegProcesses[key]].status = IF @ = "running" THEN "exited" ELSE @]
    ELSE proc

HandlesAfterKill(key) ==
    IF key \in DOMAIN ffmpegProcesses THEN Without(ffmpegProcesses, key) ELSE ffmpegProcesses

\* killStream after `await rmdir`: if (global.streams.has(id)) global.streams.delete(id)
StreamsAfterKill(seq, key) == MapDelete(seq, key)

\* ------------------------------------------- process.on("unhandledRejection")
\* the subprocesses the handler's loop kills: if (!ffmpeg.killed)
Victims == {id \in DOMAIN ffmpegProcesses : proc[ffmpegProcesses[id]].status = "running"}

\* process.exit(1): every socket, subscription and suspended handler is gone
Exit ==
    /\ service' = "down"
    /\ killing' = NoVal
    /\ conn' = [c \in Conns |-> IF conn[c] = "open" THEN "closed" ELSE conn[c]]
    /\ topics' = [c \in Conns |-> {}]
    /\ websocketClients' = EmptyMap
    /\ tasks' = EmptyBag
    /\ UNCHANGED <<proc, ffmpegProcesses>>

\* the handler's loop: killStream(id, join(streamsDirectory, id)) for a
\* registered live subprocess, up to its `await rmdir`; process.exit(1) when
\* the loop finds none; left are the handlers still suspended
KillNextOrExit(left) ==
    IF Victims = {}
    THEN Exit
    ELSE \E id \in Victims :
            /\ service' = "stopping"
            /\ killing' = id
            /\ proc' = ProcAfterKill(id)
            /\ ffmpegProcesses' = HandlesAfterKill(id)
            /\ tasks' = left
            /\ UNCHANGED <<conn, topics, websocketClients>>

\* A message handler's promise rejects and nothing handles it: once the turn
\* ends the process-level handler runs server.stop() and its loop
UnhandledRejection(cause, left) ==
    /\ rejection' = cause
    /\ KillNextOrExit(left)
    /\ reaper' = IF Victims = {} THEN ReaperIdle ELSE reaper
    /\ orphans' = IF Victims = {} THEN OrphansIdle ELSE orphans
    /\ out' = Silence
    /\ UNCHANGED <<now, created, obj, accepted, streams>>

\* killStream's rmdir is done: the rest of killStream, and the loop goes on
FatalResume ==
    /\ service = "stopping"
    /\ dirs' = dirs \ {killing}
    /\ streams' = StreamsAfterKill(streams, killing)
    /\ KillNextOrExit(tasks)
    /\ reaper' = IF Victims = {} THEN ReaperIdle ELSE Forget(killing)
    /\ orphans' = IF Victims = {} THEN OrphansIdle ELSE orphans
    /\ inp' = Internal("stopped", killing)
    /\ out' = Silence
    /\ UNCHANGED <<scope, video, res, sent, accepted, now, rejection, created, obj>>

\* --------------------------------------------- websocket.message(ws, message)
Types == {NoVal, "start", "keepAlive", "message", "bogus"}
Bodies == {"hi"}

\* JSON.parse throws; the catch block reads data.type of the undefined data and
\* throws a TypeError: nothing is sent and the handler's promise rejects
MsgInvalidJson(c) ==
    /\ Recv(c)
    /\ UnhandledRejection("json", tasks)
    /\ dirs' = dirs
    /\ inp' = Event("garbage", c, NoVal, NoName, NoToken, NoVal, NoVal)

\* if (!data.stream): before the subscription test, so for every socket
MsgNoStream(c, type) ==
    /\ Recv(c)
    /\ out' = Send(c, Failure(type, "No stream supplied!"))
    /\ CloseEffects(c)
    /\ inp' = Event("message", c, NoVal, NoName, NoToken, type, NoVal)
    /\ UNCHANGED <<accepted, now, orphans, service, killing, rejection, created, streams, obj, dirs,
                   ffmpegProcesses, proc, tasks, reaper>>

SubscribeCause(stream, username) ==
    IF ~Has(stream) THEN "Stream doesn't exist!"
    ELSE IF username = NoName THEN "No username supplied!"
    ELSE "Invalid username!"

\* a rejection that answers and forgets ws.close()
SubscribeRejectNoClose(c, stream, username, type) ==
    /\ Recv(c)
    /\ c \notin DOMAIN websocketClients
    /\ ~Has(stream) \/ username = NoName \/ ~RegexCheckUsername(username)
    /\ out' = Send(c, Failure(type, SubscribeCause(stream, username)))
    /\ inp' = Event("subscribe", c, stream, username, NoToken, type, NoVal)
    /\ UNCHANGED <<accepted, now, orphans, service, killing, rejection, created, streams, obj, dirs,
                   ffmpegProcesses, proc, tasks, reaper, conn, topics, websocketClients>>

\* if (!websocketClients.has(ws)): the three rejections of a subscribe
SubscribeReject(c, stream, username, type) ==
    /\ Recv(c)
    /\ c \notin DOMAIN websocketClients
    /\ ~Has(stream) \/ username = NoName \/ ~RegexCheckUsername(username)
    /\ out' = Send(c, Failure(type, SubscribeCause(stream, username)))
    /\ CloseEffects(c)
    /\ inp' = Event("subscribe", c, stream, username, NoToken, type, NoVal)
    /\ UNCHANGED <<accepted, now, orphans, service, killing, rejection, created, streams, obj, dirs,
                   ffmpegProcesses, proc, tasks, reaper>>

Task(kind, ws, stream, username, host, type) ==
    [kind |-> kind, ws |-> ws, stream |-> stream, username |-> username,
     host |-> host, type |-> type]

\* ws.subscribe(data.stream), then the handler suspends in the country lookup
\* that is an argument of websocketClients.set
SubscribeAccept(c, stream, username, token, type) ==
    /\ Recv(c)
    /\ c \notin DOMAIN websocketClients
    /\ Has(stream)
    /\ username # NoName
    /\ RegexCheckUsername(username)
    /\ InFlight < MaxTasks
    /\ topics' = [topics EXCEPT ![c] = @ \cup {stream}]
    /\ accepted' = accepted \cup {c}
    /\ tasks' = tasks (+) SetToBag({Task("fetch", c, stream, username,
                                         Token(stream) = token, type)})
    /\ inp' = Event("subscribe", c, stream, username, token, type, NoVal)
    /\ out' = Silence
    /\ UNCHANGED <<now, orphans, service, killing, rejection, created, streams, obj, dirs,
                   ffmpegProcesses, proc, conn, websocketClients, reaper>>

\* what the lookup of ipapi.co answers for the address of a socket: a country
\* code, or a reply without one
CountryOf(ws) == IF ws % 2 = 1 THEN "FR" ELSE NoVal

Client(t) ==
    [stream |-> t.stream, username |-> t.username, host |-> t.host,
     country |-> CountryOf(t.ws)]

\* the lookup answers: websocketClients.set(ws, {...}) and the confirmation
FetchDone(t) ==
    /\ Running
    /\ BagIn(t, tasks)
    /\ t.kind = "fetch"
    /\ tasks' = tasks (-) SetToBag({t})
    /\ websocketClients' = With(websocketClients, t.ws, Client(t))
    /\ out' = Send(t.ws, Success(t.type, "Now watching stream!"))
    /\ inp' = Event("fetch", t.ws, t.stream, t.username, NoToken, t.type, NoVal)
    /\ UNCHANGED <<scope, video, res, sent, accepted, now, orphans, service, killing, rejection, created, streams, obj, dirs,
                   ffmpegProcesses, proc, conn, topics, reaper>>

\* fetch or .json() rejects: the handler's promise rejects
FetchFail(t) ==
    /\ Up
    /\ BagIn(t, tasks)
    /\ t.kind = "fetch"
    /\ UnhandledRejection("lookup", tasks (-) SetToBag({t}))
    /\ UNCHANGED <<scope, video, res, sent, accepted, dirs>>
    /\ inp' = Event("fetchfail", t.ws, t.stream, t.username, NoToken, t.type, NoVal)

\* ------------------------------------------- commands of a subscribed socket
\* a handler that tells the sender the session is gone and leaves the socket open
MsgEndedStaysOpen(c, type) ==
    /\ Recv(c)
    /\ c \in DOMAIN websocketClients
    /\ ~Has(websocketClients[c].stream)
    /\ out' = Send(c, Failure(type, "Stream ended!"))
    /\ inp' = Event("message", c, websocketClients[c].stream, NoName, NoToken, type, NoVal)
    /\ UNCHANGED <<accepted, now, orphans, service, killing, rejection, created, streams, obj, dirs,
                   ffmpegProcesses, proc, tasks, reaper, conn, topics, websocketClients>>

\* if (!global.streams.has(client.stream)): the session is gone
MsgEnded(c, type) ==
    /\ Recv(c)
    /\ c \in DOMAIN websocketClients
    /\ ~Has(websocketClients[c].stream)
    /\ out' = Send(c, Failure(type, "Stream ended!"))
    /\ CloseEffects(c)
    /\ inp' = Event("message", c, websocketClients[c].stream, NoName, NoToken, type, NoVal)
    /\ UNCHANGED <<accepted, now, orphans, service, killing, rejection, created, streams, obj, dirs,
                   ffmpegProcesses, proc, tasks, reaper>>

\* a socket whose message reaches the switch on data.type
Dispatch(c) ==
    /\ Recv(c)
    /\ c \in DOMAIN websocketClients
    /\ Has(websocketClients[c].stream)

AlreadyStarted(id) == obj[id].state = "started" \/ id \in DOMAIN ffmpegProcesses

\* case "start": the two refusals, in the order of the code
StartCause(c) ==
    IF AlreadyStarted(websocketClients[c].stream)
    THEN "This stream has already started!"
    ELSE "You're not the host!"

MsgStartRefused(c) ==
    /\ Dispatch(c)
    /\ AlreadyStarted(websocketClients[c].stream) \/ ~websocketClients[c].host
    /\ out' = Send(c, Failure("start", StartCause(c)))
    /\ inp' = Event("message", c, websocketClients[c].stream, NoName, NoToken, "start", NoVal)
    /\ UNCHANGED <<accepted, now, orphans, service, killing, rejection, created, streams, obj, dirs, ffmpegProcesses,
                   proc, conn, topics, websocketClients, tasks, reaper>>

\* a start that tests the session and not the sender
MayStartAnyone(c) == ~AlreadyStarted(websocketClients[c].stream)

\* what lets case "start" go on to startStream
MayStart(c) ==
    /\ ~AlreadyStarted(websocketClients[c].stream)
    /\ websocketClients[c].host

\* case "start", up to `await mkdir` in startStream: the handler keeps its
\* references to the client and to the stream object
MsgStart(c) ==
    /\ Dispatch(c)
    /\ MayStart(c)
    /\ InFlight < MaxTasks
    /\ Cardinality(Spawned) + CopiesInKind("mkdir") < scope.procs
    /\ tasks' = tasks (+) SetToBag({Task("mkdir", c, websocketClients[c].stream, NoName,
                                         websocketClients[c].host, "start")})
    /\ inp' = Event("message", c, websocketClients[c].stream, NoName, NoToken, "start", NoVal)
    /\ out' = Silence
    /\ UNCHANGED <<accepted, now, orphans, service, killing, rejection, created, streams, obj, dirs, ffmpegProcesses,
                   proc, conn, topics, websocketClients, reaper>>

NewPid == CHOOSE p \in Pids : proc[p].status = "unborn" /\ \A q \in Pids : q < p => proc[q].status # "unborn"

\* startStream after mkdir: Bun.spawn, the exit handler, ffmpegProcesses.set;
\* then the rest of case "start": state, keepAlive, global.streams.set, the reply
StartResume(t) ==
    /\ Running
    /\ BagIn(t, tasks)
    /\ t.kind = "mkdir"
    /\ tasks' = tasks (-) SetToBag({t})
    /\ dirs' = dirs \cup {t.stream}
    /\ proc' = [proc EXCEPT ![NewPid] = [id |-> t.stream, status |-> "running", host |-> t.host]]
    /\ ffmpegProcesses' = With(ffmpegProcesses, t.stream, NewPid)
    /\ obj' = [obj EXCEPT ![t.stream] = [state |-> "started", keepAlive |-> now]]
    /\ streams' = MapSet(streams, t.stream)
    /\ out' = Send(t.ws, Success("start", "Stream started!"))
    /\ inp' = Event("mkdir", t.ws, t.stream, NoName, NoToken, "start", NoVal)
    /\ orphans' = Appended(t.stream)
    /\ UNCHANGED <<scope, video, res, sent, accepted, now, service, killing, rejection, created, conn, topics,
                   websocketClients, reaper>>

\* Bun.spawn throws (the ffmpeg binary cannot be run, or the fork fails): the
\* mkdir is done, startStream rejects before its ffmpegProcesses.set, `await
\* startStream(stream)` throws in case "start" before stream.state is written,
\* and the message handler's promise rejects
SpawnFail(t) ==
    /\ Up
    /\ BagIn(t, tasks)
    /\ t.kind = "mkdir"
    /\ dirs' = dirs \cup {t.stream}
    /\ UnhandledRejection("spawn", tasks (-) SetToBag({t}))
    /\ inp' = Event("spawnfail", t.ws, t.stream, NoName, NoToken, "start", NoVal)
    /\ UNCHANGED <<scope, video, res, sent>>

NotStarted(id) == obj[id].state # "started" \/ id \notin DOMAIN ffmpegProcesses

\* a refusal that also closes the socket
MsgKeepAliveRefusedCloses(c) ==
    /\ Dispatch(c)
    /\ NotStarted(websocketClients[c].stream)
    /\ out' = Send(c, Failure("keepAlive", "This stream hasn't even started yet!"))
    /\ CloseEffects(c)
    /\ inp' = Event("message", c, websocketClients[c].stream, NoName, NoToken, "keepAlive", NoVal)
    /\ UNCHANGED <<accepted, now, orphans, service, killing, rejection, created, streams, obj, dirs,
                   ffmpegProcesses, proc, tasks, reaper>>

\* case "keepAlive" on a session that is not started
MsgKeepAliveRefused(c) ==
    /\ Dispatch(c)
    /\ NotStarted(websocketClients[c].stream)
    /\ out' = Send(c, Failure("keepAlive", "This stream hasn't even started yet!"))
    /\ inp' = Event("message", c, websocketClients[c].stream, NoName, NoToken, "keepAlive", NoVal)
    /\ UNCHANGED <<accepted, now, orphans, service, killing, rejection, created, streams, obj, dirs, ffmpegProcesses,
                   proc, conn, topics, websocketClients, tasks, reaper>>

\* a touch that writes a timestamp taken at start-up
TouchStale(id) ==
    /\ obj' = [obj EXCEPT ![id].keepAlive = 0]
    /\ streams' = MapSet(streams, id)

\* stream.keepAlive = Date.now(); global.streams.set(client.stream, stream)
Touch(id) ==
    /\ obj' = [obj EXCEPT ![id].keepAlive = now]
    /\ streams' = MapSet(streams, id)

\* a keepAlive that answers without writing the timestamp
MsgKeepAliveNoTouch(c) ==
    /\ Dispatch(c)
    /\ ~NotStarted(websocketClients[c].stream)
    /\ out' = Send(c, Success("keepAlive", "Keep alive registered!"))
    /\ inp' = Event("message", c, websocketClients[c].stream, NoName, NoToken, "keepAlive", NoVal)
    /\ UNCHANGED <<accepted, now, orphans, service, killing, rejection, created, streams, obj, dirs,
                   ffmpegProcesses, proc, conn, topics, websocketClients, tasks, reaper>>

\* case "keepAlive"
MsgKeepAlive(c) ==
    /\ Dispatch(c)
    /\ ~NotStarted(websocketClients[c].stream)
    /\ Touch(websocketClients[c].stream)
    /\ out' = Send(c, Success("keepAlive", "Keep alive registered!"))
    /\ inp' = Event("message", c, websocketClients[c].stream, NoName, NoToken, "keepAlive", NoVal)
    /\ UNCHANGED <<accepted, now, orphans, service, killing, rejection, created, dirs, ffmpegProcesses,
                   proc, conn, topics, websocketClients, tasks, reaper>>

\* case "message" with no body
MsgChatEmpty(c) ==
    /\ Dispatch(c)
    /\ out' = Send(c, Failure("message", "No message!"))
    /\ inp' = Event("message", c, websocketClients[c].stream, NoName, NoToken, "message", NoVal)
    /\ UNCHANGED <<accepted, now, orphans, service, killing, rejection, created, streams, obj, dirs, ffmpegProcesses,
                   proc, conn, topics, websocketClients, tasks, reaper>>

\* case "message": touch, then server.publish to the session's topic
MsgChat(c, body) ==
    /\ Dispatch(c)
    /\ Touch(websocketClients[c].stream)
    /\ out' = Publish(websocketClients[c].stream, Chat("message", websocketClients[c], body))
    /\ inp' = Event("message", c, websocketClients[c].stream, NoName, NoToken, "message", body)
    /\ UNCHANGED <<accepted, now, orphans, service, killing, rejection, created, dirs, ffmpegProcesses,
                   proc, conn, topics, websocketClients, tasks, reaper>>

\* a default branch that closes the socket like a failed subscribe
MsgUnknownTypeCloses(c, type) ==
    /\ Dispatch(c)
    /\ type \notin {"start", "keepAlive", "message"}
    /\ out' = Send(c, Failure(type, "This type doesn't exist!"))
    /\ CloseEffects(c)
    /\ inp' = Event("message", c, websocketClients[c].stream, NoName, NoToken, type, NoVal)
    /\ UNCHANGED <<accepted, now, orphans, service, killing, rejection, created, streams, obj, dirs,
                   ffmpegProcesses, proc, tasks, reaper>>

\* default:
MsgUnknownType(c, type) ==
    /\ Dispatch(c)
    /\ type \notin {"start", "keepAlive", "message"}
    /\ out' = Send(c, Failure(type, "This type doesn't exist!"))
    /\ inp' = Event("message", c, websocketClients[c].stream, NoName, NoToken, type, NoVal)
    /\ UNCHANGED <<accepted, now, orphans, service, killing, rejection, created, streams, obj, dirs, ffmpegProcesses,
                   proc, conn, topics, websocketClients, tasks, reaper>>

\* ------------------------------------------------------ the transcoder
\* the subprocess ends by itself (end of the video, or an ffmpeg error), at
\* any time before process.exit
ProcExit(p) ==
    /\ Running
    /\ proc[p].status = "running"
    /\ proc' = [proc EXCEPT ![p].status = "exited"]
    /\ inp' = Internal("exit", proc[p].id)
    /\ out' = Silence
    /\ UNCHANGED <<scope, video, res, sent, accepted, now, orphans, service, killing, rejection, created, streams, obj, dirs, ffmpegProcesses,
                   conn, topics, websocketClients, tasks, reaper>>

\* an exit handler that also marks the session stopped
ExitCleanupStops(p) ==
    /\ Running
    /\ proc[p].status = "exited"
    /\ proc' = [proc EXCEPT ![p].status = "cleaned"]
    /\ dirs' = dirs \ {proc[p].id}
    /\ obj' = [obj EXCEPT ![proc[p].id].state = "stopped"]
    /\ streams' = MapDelete(streams, proc[p].id)
    /\ ffmpegProcesses' = Without(ffmpegProcesses, proc[p].id)
    /\ reaper' = Forget(proc[p].id)
    /\ inp' = Internal("cleanup", proc[p].id)
    /\ out' = Silence
    /\ UNCHANGED <<scope, video, res, sent, accepted, now, orphans, service, killing, rejection, created, conn, topics,
                   websocketClients, tasks>>

\* an exit handler that can be called again for the same exit
ExitCleanupRepeats(p) ==
    /\ Running
    /\ proc[p].status = "exited"
    /\ dirs' = dirs \ {proc[p].id}
    /\ streams' = MapDelete(streams, proc[p].id)
    /\ ffmpegProcesses' = Without(ffmpegProcesses, proc[p].id)
    /\ reaper' = Forget(proc[p].id)
    /\ inp' = Internal("cleanup", proc[p].id)
    /\ out' = Silence
    /\ UNCHANGED <<scope, video, res, sent, accepted, now, orphans, service, killing, rejection, created, obj, conn, topics,
                   websocketClients, tasks, proc>>

\* ffmpeg.exited.then(...) after its 10 s delay: rmdir, then the two deletes,
\* both by session id
ExitCleanup(p) ==
    /\ Running
    /\ proc[p].status = "exited"
    /\ proc' = [proc EXCEPT ![p].status = "cleaned"]
    /\ dirs' = dirs \ {proc[p].id}
    /\ streams' = MapDelete(streams, proc[p].id)
    /\ ffmpegProcesses' = Without(ffmpegProcesses, proc[p].id)
    /\ reaper' = Forget(proc[p].id)
    /\ inp' = Internal("cleanup", proc[p].id)
    /\ out' = Silence
    /\ UNCHANGED <<scope, video, res, sent, accepted, now, orphans, service, killing, rejection, created, obj, conn, topics,
                   websocketClients, tasks>>

\* ------------------------------------------------- the keep-alive reaper
\* the viewer count of the sweep: the clients of websocketClients watching id
ViewerCount(id) ==
    Cardinality({c \in DOMAIN websocketClients : websocketClients[c].stream = id})

Idle(id) == now - obj[id].keepAlive > MAX_KEEP_ALIVE

\* what the sweep hands to killStream as its id: global.ffmpegProcesses.get(id),
\* the subprocess object (or undefined), not the session id
KillKey(id) == IF id \in DOMAIN ffmpegProcesses THEN "[object Subprocess]" ELSE NoVal

Unvisited(seq, visited) == SelectSeq(seq, LAMBDA x : x \notin visited)

\* the sweep runs on without suspending up to its first idle entry
FirstIdle(U) ==
    IF \E i \in 1..Len(U) : Idle(U[i])
    THEN CHOOSE i \in 1..Len(U) : Idle(U[i]) /\ \A j \in 1..(i - 1) : ~Idle(U[j])
    ELSE 0

Passed(U) == IF FirstIdle(U) = 0 THEN 1..Len(U) ELSE 1..(FirstIdle(U) - 1)

\* the status snapshots of the entries passed, each to its topic
SegmentOut(U) ==
    [c \in Conns |->
        {Info(U[i], obj[U[i]].state, ViewerCount(U[i])) :
            i \in {j \in Passed(U) : ViewerCount(U[j]) > 0 /\ c \in Subscribers(U[j])}}]

\* where the sweep stands after the segment: done, or suspended in killStream
ReaperAfter(U, visited) ==
    IF FirstIdle(U) = 0
    THEN ReaperIdle
    ELSE [pc |-> "rmdir",
          visited |-> visited \cup {U[i] : i \in 1..FirstIdle(U)},
          cur |-> U[FirstIdle(U)],
          key |-> KillKey(U[FirstIdle(U)]),
          viewers |-> ViewerCount(U[FirstIdle(U)])]

\* setInterval(..., 10_000): the sweep starts
ReaperSweep ==
    /\ Up
    /\ reaper.pc = "idle"
    /\ Len(streams) > 0
    /\ reaper' = ReaperAfter(streams, {})
    /\ proc' = ProcAfterKill(reaper'.key)
    /\ ffmpegProcesses' = HandlesAfterKill(reaper'.key)
    /\ out' = SegmentOut(streams)
    /\ inp' = Internal("sweep", NoVal)
    /\ UNCHANGED <<scope, video, res, sent, accepted, now, orphans, service, killing, rejection, created, streams, obj, dirs, conn, topics,
                   websocketClients, tasks>>

\* killStream's rmdir is done: the rest of killStream, the snapshot of the
\* entry (the count taken before the suspension), and the sweep goes on
ReaperResume ==
    /\ Running
    /\ reaper.pc = "rmdir"
    /\ dirs' = dirs \ {reaper.cur}
    /\ streams' = StreamsAfterKill(streams, reaper.key)
    /\ reaper' = ReaperAfter(Unvisited(streams', reaper.visited), reaper.visited)
    /\ proc' = ProcAfterKill(reaper'.key)
    /\ ffmpegProcesses' = HandlesAfterKill(reaper'.key)
    /\ out' = [c \in Conns |->
                 SegmentOut(Unvisited(streams', reaper.visited))[c] \cup
                 (IF reaper.viewers > 0
                  THEN Publish(reaper.cur, Info(reaper.cur, obj[reaper.cur].state, reaper.viewers))[c]
                  ELSE {})]
    /\ inp' = Internal("swept", reaper.cur)
    /\ UNCHANGED <<scope, video, res, sent, accepted, now, orphans, service, killing, rejection, created, obj, conn, topics,
                   websocketClients, tasks>>

\* ---------------------------------------------------- the orphan sweep
\* a test that takes every registered subprocess for an orphan
OrphanAny(seq, id) == TRUE

\* if (!global.streams.has(id))
Orphan(seq, id) == ~\E i \in 1..Len(seq) : seq[i] = id

\* ffmpeg.killed: the subprocess has ended
Killed(id) == proc[ffmpegProcesses[id]].status # "running"

\* One uninterrupted piece of the sweep's loop over global.ffmpegProcesses, in
\* an order the model leaves open.  It passes the entries V: those with a
\* session are skipped, orphans whose subprocess has ended are deleted.  Then
\* it is through, or it meets an orphan x whose subprocess is alive and
\* suspends in killStream(x, join(streamsDirectory, x)).
OrphanPiece(seq, visited) ==
    LET U == DOMAIN ffmpegProcesses \ visited
        Slow == {id \in U : Orphan(seq, id) /\ ~Killed(id)}
        Dead(V) == {id \in V : Orphan(seq, id)}
    IN  IF Slow = {}
        THEN /\ orphans' = OrphansIdle
             /\ ffmpegProcesses' = [id \in DOMAIN ffmpegProcesses \ Dead(U) |-> ffmpegProcesses[id]]
             /\ proc' = proc
        ELSE \E x \in Slow : \E V \in SUBSET (U \ Slow) :
                /\ orphans' = [pc |-> "rmdir", visited |-> visited \cup V \cup {x}, cur |-> x]
                /\ ffmpegProcesses' =
                      [id \in DOMAIN ffmpegProcesses \ (Dead(V) \cup {x}) |-> ffmpegProcesses[id]]
                /\ proc' = ProcAfterKill(x)

\* setInterval(..., 60_000): the sweep starts; the timer runs until process.exit
OrphanSweep ==
    /\ Running
    /\ orphans.pc = "idle"
    /\ DOMAIN ffmpegProcesses # {}
    /\ OrphanPiece(streams, {})
    /\ inp' = Internal("orphans", NoVal)
    /\ out' = Silence
    /\ UNCHANGED <<scope, video, res, sent, accepted, now, service, killing, rejection, created, streams, obj,
                   dirs, conn, topics, websocketClients, tasks, reaper>>

\* killStream's rmdir is done: the rest of killStream, and the loop goes on
OrphanResume ==
    /\ Running
    /\ orphans.pc = "rmdir"
    /\ dirs' = dirs \ {orphans.cur}
    /\ streams' = StreamsAfterKill(streams, orphans.cur)
    /\ reaper' = Forget(orphans.cur)
    /\ OrphanPiece(streams', orphans.visited)
    /\ inp' = Internal("orphaned", orphans.cur)
    /\ out' = Silence
    /\ UNCHANGED <<scope, video, res, sent, accepted, now, service, killing, rejection, created, obj,
                   conn, topics, websocketClients, tasks>>

\* ------------------------------------------- GET /:streamID/:segment
\* the names a request may carry: the playlist, a segment, the uploaded video
Segments == {"index.m3u8", "index0.ts", "video.mp4"}

\* segment.endsWith(".ts") || segment.endsWith(".m3u8")
Playable(segment) == segment \in {"index.m3u8", "index0.ts"}

\* a test that looks at the name only
SegmentRefusedByName(streamID, segment) == ~Playable(segment)

\* (!segment.endsWith(".ts") && !segment.endsWith(".m3u8")) || !global.streams.has(streamID)
SegmentRefused(streamID, segment) == ~Playable(segment) \/ ~Has(streamID)

\* the first return: 404 without a look at the disk
GetSegmentRefused(streamID, segment) ==
    /\ Up
    /\ SegmentRefused(streamID, segment)
    /\ res' = [status |-> 404, fs |-> FALSE]
    /\ inp' = Event("segment", 0, streamID, NoName, NoToken, segment, NoVal)
    /\ out' = Silence
    /\ UNCHANGED <<scope, video, sent, accepted, now, orphans, service, killing, rejection, created, streams,
                   obj, dirs, ffmpegProcesses, proc, conn, topics, websocketClients, tasks, reaper>>

\* the handler goes on to `await Bun.file(streamPath).exists()` and suspends
GetSegment(streamID, segment) ==
    /\ Up
    /\ ~SegmentRefused(streamID, segment)
    /\ InFlight < MaxTasks
    /\ tasks' = tasks (+) SetToBag({Task("exists", 0, streamID, NoName, FALSE, segment)})
    /\ res' = [status |-> 0, fs |-> TRUE]
    /\ inp' = Event("segment", 0, streamID, NoName, NoToken, segment, NoVal)
    /\ out' = Silence
    /\ UNCHANGED <<scope, video, sent, accepted, now, orphans, service, killing, rejection, created, streams,
                   obj, dirs, ffmpegProcesses, proc, conn, topics, websocketClients, reaper>>

\* exists() has answered: 404, or the file is streamed; a file can be there
\* only while the session's directory is
GetSegmentResume(t, found) ==
    /\ Running
    /\ BagIn(t, tasks)
    /\ t.kind = "exists"
    /\ found => t.stream \in dirs
    /\ tasks' = tasks (-) SetToBag({t})
    /\ res' = [status |-> IF found THEN 200 ELSE 404, fs |-> TRUE]
    /\ inp' = Event("served", 0, t.stream, NoName, NoToken, t.type, NoVal)
    /\ out' = Silence
    /\ UNCHANGED <<scope, video, sent, accepted, now, orphans, service, killing, rejection, created, streams,
                   obj, dirs, ffmpegProcesses, proc, conn, topics, websocketClients, reaper>>

\* ------------------------------------------------------------------ Next
SubscribeStreams == Ids \cup {DeadBeef}
SubscribeTypes == {NoVal}
Tokens(stream) == {Token(stream), BadToken, NoToken}

Next ==
    \/ Tick
    \/ Upload
    \/ \E c \in Conns : Connect(c)
    \/ \E c \in Conns : Close(c)
    \/ \E c \in Conns : MsgInvalidJson(c)
    \/ \E c \in Conns, type \in Types : MsgNoStream(c, type)
    \/ \E c \in Conns, stream \in SubscribeStreams, type \in SubscribeTypes :
          \E username \in Usernames(c) : SubscribeReject(c, stream, username, type)
    \/ \E c \in Conns, stream \in Ids, type \in SubscribeTypes :
          \E username \in Usernames(c), token \in Tokens(stream) :
              SubscribeAccept(c, stream, username, token, type)
    \/ \E t \in BagToSet(tasks) : FetchDone(t)
    \/ \E t \in BagToSet(tasks) : FetchFail(t)
    \/ \E c \in Conns, type \in Types : MsgEnded(c, type)
    \/ \E c \in Conns : MsgStartRefused(c)
    \/ \E c \in Conns : MsgStart(c)
    \/ \E t \in BagToSet(tasks) : StartResume(t)
    \/ \E t \in BagToSet(tasks) : SpawnFail(t)
    \/ \E c \in Conns : MsgKeepAliveRefused(c)
    \/ \E c \in Conns : MsgKeepAlive(c)
    \/ \E c \in Conns : MsgChatEmpty(c)
    \/ \E c \in Conns, body \in Bodies : MsgChat(c, body)
    \/ \E c \in Conns, type \in Types : MsgUnknownType(c, type)
    \/ \E p \in Pids : ProcExit(p)
    \/ \E p \in Pids : ExitCleanup(p)
    \/ ReaperSweep
    \/ ReaperResume
    \/ FatalResume

Spec == Init /\ [][Next]_vars

\* ------------------------------------------- the segment route at work
\* The route reads global.streams and the disk and writes nothing: Spec leaves
\* it out, and SpecFiles follows it beside the handlers that add and remove
\* sessions and directories
FileScope ==
    [conns |-> MaxConns - 1, time |-> 0, procs |-> MaxProcs - 1, msgs |-> MaxMsgs,
     maxResolution |-> resolutions["1080p"]]

InitFiles == Start(FileScope)

NextFiles ==
    \/ Upload
    \/ \E c \in Conns : Connect(c)
    \/ \E c \in Conns, stream \in Ids :
          SubscribeAccept(c, stream, ValidName(c), Token(stream), NoVal)
    \/ \E t \in BagToSet(tasks) : FetchDone(t)
    \/ \E c \in Conns : MsgStart(c)
    \/ \E t \in BagToSet(tasks) : StartResume(t)
    \/ \E p \in Pids : ProcExit(p)
    \/ \E p \in Pids : ExitCleanup(p)
    \/ \E streamID \in SubscribeStreams, segment \in Segments : GetSegmentRefused(streamID, segment)
    \/ \E streamID \in SubscribeStreams, segment \in Segments : GetSegment(streamID, segment)
    \/ \E t \in BagToSet(tasks), found \in BOOLEAN : GetSegmentResume(t, found)

SpecFiles == InitFiles /\ [][NextFiles]_vars

\* ------------------------------------------- the orphan sweep at work
\* In Spec no entry of global.ffmpegProcesses is without its session (see
\* NoOrphanWhileUp), so the orphan sweep finds nothing to do there and Spec
\* leaves it out.  An orphan needs a third subprocess and a killStream by
\* session id overtaken by a start: SpecOrphans follows the sweep through the
\* fatal handler's waits, beside the handlers that spawn and remove
\* subprocesses
OrphanScope ==
    [conns |-> MaxConns, time |-> 0, procs |-> MaxProcs, msgs |-> MaxOrphanMsgs,
     maxResolution |-> resolutions["1080p"]]

InitOrphans == Start(OrphanScope)

NextOrphans ==
    \/ Upload
    \/ \E c \in Conns : Connect(c)
    \/ \E c \in Conns, stream \in Ids :
          SubscribeAccept(c, stream, ValidName(c), Token(stream), NoVal)
    \/ \E t \in BagToSet(tasks) : FetchDone(t)
    \/ \E c \in Conns : MsgStart(c)
    \/ \E t \in BagToSet(tasks) : StartResume(t)
    \/ \E p \in Pids : ProcExit(p)
    \/ \E p \in Pids : ExitCleanup(p)
    \/ \E c \in Conns : MsgInvalidJson(c)
    \/ FatalResume
    \/ OrphanSweep
    \/ OrphanResume

SpecOrphans == InitOrphans /\ [][NextOrphans]_vars

\* ------------------------------------------- the username check at work
\* Spec offers four usernames.  SpecNames offers every username of up to
\* MaxNameLen characters that repeats one allowed character and has at most
\* one character of another class somewhere in it, to a socket's subscribe
AllowedClasses == {"L", "N", "S", "P"}
NameOf(n, k, x, b) == [i \in 1..n |-> IF i = k THEN x ELSE b]
Names ==
    {NameOf(n, k, x, b) : n \in 0..MaxNameLen, k \in 0..MaxNameLen,
                          x \in CharClasses, b \in AllowedClasses}

NameScope ==
    [conns |-> MaxConns - 1, time |-> 0, procs |-> MaxProcs - 1, msgs |-> MaxMsgs - 3,
     maxResolution |-> resolutions["1080p"]]

InitNames == Start(NameScope)

NextNames ==
    \/ Upload
    \/ \E c \in Conns : Connect(c)
    \/ \E c \in Conns :
          /\ Open(c)
          /\ sent < scope.msgs
          /\ \E stream \in SubscribeStreams, username \in Names :
                SubscribeReject(c, stream, username, NoVal)
    \/ \E c \in Conns :
          /\ Open(c)
          /\ sent < scope.msgs
          /\ \E stream \in Ids, username \in Names :
                SubscribeAccept(c, stream, username, Token(stream), NoVal)
    \/ \E t \in BagToSet(tasks) : FetchDone(t)

SpecNames == InitNames /\ [][NextNames]_vars

\* ------------------------------------------- the uploads' target resolution
\* SpecQuality takes every tier as the configured maximum and uploads videos
\* of every combination of the widths and heights below: the tiers' own
\* dimensions, one less, one more, and none
Dims ==
    {0, 719, 720, 721, 1079, 1080, 1279, 1280, 1281, 1439, 1440, 1919, 1920, 1921, 2159, 2160,
     2559, 2560, 3839, 3840, 3841, 4319, 4320, 7679, 7680, 7681}

QualityScopes ==
    {[conns |-> MaxConns - 1, time |-> 0, procs |-> MaxProcs - 1, msgs |-> MaxMsgs,
      maxResolution |-> resolutions[t]] : t \in DOMAIN resolutions}

InitQuality == \E sc \in QualityScopes : Start(sc)

NextQuality == \E width \in Dims, height \in Dims : UploadVideo(width, height)

SpecQuality == InitQuality /\ [][NextQuality]_vars

\* until process.exit, every registered subprocess has its session in
\* global.streams
NoOrphanWhileUp == Running => \A id \in DOMAIN ffmpegProcesses : Has(id)

\* The 10 s timer of an exit handler fires and its rmdir completes as long as
\* the process runs: the cleanup of an exited subprocess is not postponed forever
FairSpec == Spec /\ \A p \in Pids : WF_vars(ExitCleanup(p))

\* ------------------------------------------------------------ properties
Live(id) == {p \in Pids : proc[p].id = id /\ proc[p].status = "running"}

AlreadyStartedCause == "This stream has already started!"
NotHostCause == "You're not the host!"

\* C1: for every session id at most one transcoder process is alive at any
\* instant, however many start commands for it are handled concurrently.
C1_OneLiveProcessPerSession == \A id \in Ids : Cardinality(Live(id)) <= 1

\* C2: once the keep-alive sweep has dealt with a session it found idle, the
\* session is no longer in global.streams and its directory is gone.
C2_IdleSessionReaped ==
    inp.op = "swept" => ~Has(inp.stream) /\ inp.stream \notin dirs

\* C3: a message that is not valid JSON is answered to its sender with an
\* "Invalid JSON" failure and the service keeps running.
C3_InvalidJsonStaysLocal ==
    inp.op = "garbage" => Up /\ out[inp.ws] = {Failure(NoVal, "Invalid JSON")}

\* a start command of a socket subscribed without the session's token
ViewerStart == inp.op = "message" /\ inp.type = "start" /\ inp.role = "viewer"

\* every subprocess, every start under way and every started session goes
\* back to a start command of a socket whose client.host was true
OnlyHostsSpawn ==
    /\ \A p \in Spawned : proc[p].host
    /\ \A t \in BagToSet(tasks) : t.kind = "mkdir" => t.host
    /\ \A id \in Ids : obj[id].state = "started" =>
           \E p \in Spawned : proc[p].id = id /\ proc[p].host

\* C4 as stated: no start of a non-host socket spawns a subprocess or starts the
\* session, and each such start of a registered session is answered with the
\* "not the host" failure.
C4_NonHostStartAnsweredNotHost ==
    /\ OnlyHostsSpawn
    /\ ViewerStart /\ Has(inp.stream) => out[inp.ws] = {Failure("start", NotHostCause)}

\* C4: no start of a non-host socket spawns a subprocess or starts the session;
\* each such start is answered with one success:false reply, whose cause is
\* "not the host" when the session is registered, stopped and without a
\* subprocess, and "already started" when it is registered and started or has
\* a subprocess.
C4_OnlyHostStarts ==
    /\ OnlyHostsSpawn
    /\ ViewerStart =>
        /\ \E m \in out[inp.ws] :
              out[inp.ws] = {m} /\ m.kind = "reply" /\ ~m.success /\ m.type = "start"
        /\ Has(inp.stream) =>
              out[inp.ws] = {Failure("start", IF AlreadyStarted(inp.stream)
                                              THEN AlreadyStartedCause ELSE NotHostCause)}

C4_Witness ==
    /\ ViewerStart
    /\ Has(inp.stream)
    /\ ~AlreadyStarted(inp.stream)
    /\ out[inp.ws] = {Failure("start", NotHostCause)}
    /\ Spawned = {}

\* C5: a host's start of a stopped session is answered with success and leaves
\* the session started; every start handled for a registered session that is
\* already started is answered "already started" and spawns nothing.
C5_StartOnceThenRefused ==
    /\ inp.op = "mkdir" /\ inp.was = "stopped" =>
          /\ out[inp.ws] \subseteq {Success("start", "Stream started!")}
          /\ obj[inp.stream].state = "started"
    /\ inp.type = "start" /\ inp.was = "started" /\ Has(inp.stream) =>
          /\ out[inp.ws] \subseteq {Failure("start", AlreadyStartedCause)}
          /\ inp.op # "mkdir"

\* C6: the host flag of a socket in websocketClients never changes.
C6_HostFlagFixed ==
    [][\A c \in DOMAIN websocketClients \cap DOMAIN websocketClients' :
          websocketClients'[c].host = websocketClients[c].host]_vars

\* C7: a session id that has been removed from global.streams is never put back.
C7_RemoveIsFinal ==
    [][\A id \in created : ~Has(id) => ~\E i \in 1..Len(streams') : streams'[i] = id]_vars

\* C8: the viewer count a sweep publishes for a session is the number of open
\* sockets subscribed to that session.
C8_ViewerCountIsSubscribers ==
    inp.op = "sweep" =>
        \A c \in Conns : \A m \in out[c] : m.viewers = Cardinality(Subscribers(m.stream))

\* a subscribe attempt the server turned down: no stream id, an unknown stream
\* id, no username, or a username the format check refuses
RejectedSubscribe ==
    \/ /\ inp.op = "subscribe"
       /\ ~Has(inp.stream) \/ inp.username = NoName \/ ~RegexCheckUsername(inp.username)
    \/ inp.op = "message" /\ inp.stream = NoVal /\ inp.role = "none"

ChatPublished == inp.op = "message" /\ inp.type = "message" /\ inp.message # NoVal

\* C10: a chat message is delivered once to every open socket subscribed to the
\* session's topic, the sender among them, with the body sent and the
\* sender's username.
C10_ChatReachesEverySubscriber ==
    ChatPublished =>
        /\ inp.ws \in Subscribers(inp.stream)
        /\ \A d \in Subscribers(inp.stream) :
              \E m \in out[d] :
                  /\ out[d] = {m}
                  /\ m.kind = "chat"
                  /\ m.type = "message"
                  /\ m.message = inp.message
                  /\ m.username = websocketClients[inp.ws].username

C10_Witness ==
    /\ ChatPublished
    /\ inp.message = "hi"
    /\ Subscribers(inp.stream) = Conns
    /\ \A d \in Conns : \E m \in out[d] : m.message = "hi" /\ m.username = ValidName(inp.ws)

\* C11: the keepAlive of a session never decreases, whatever handler writes it
\* and however the handlers interleave.
C11_KeepAliveNeverDecreases ==
    [][\A id \in created : obj'[id].keepAlive >= obj[id].keepAlive]_vars

C11_Witness ==
    /\ now > 0
    /\ inp.op = "mkdir"
    /\ obj[inp.stream].keepAlive = now
    /\ out[inp.ws] = {Success("start", "Stream started!")}

\* C12: a session is stopped when it is created, and a started session is
\* never set back to stopped, also after it has left global.streams.
C12_StateOnlyStoppedToStarted ==
    [][/\ \A id \in created : obj[id].state = "started" => obj'[id].state = "started"
       /\ \A id \in created' \ created : obj'[id].state = "stopped"]_vars

C12_Witness ==
    /\ inp.op = "cleanup"
    /\ inp.stream \in created
    /\ obj[inp.stream].state = "started"
    /\ ~Has(inp.stream)

\* C13: when a killStream called with a session id has completed, the id has
\* no subprocess registered, no entry in global.streams and no directory.
C13_StopLeavesNothing ==
    [][inp'.op = "stopped" =>
          /\ inp'.stream \notin DOMAIN ffmpegProcesses
          /\ inp'.stream \notin dirs'
          /\ \A i \in 1..Len(streams') : streams'[i] # inp'.stream]_vars

\* C14: a killStream whose id has no subprocess registered kills no
\* subprocess, changes no entry of global.ffmpegProcesses and raises no error.
C14_StopWithoutProcessIsNoOp ==
    [][(inp'.op \in {"sweep", "swept"} /\ reaper'.pc = "rmdir"
            /\ reaper'.key \notin DOMAIN ffmpegProcesses) =>
          /\ proc' = proc
          /\ ffmpegProcesses' = ffmpegProcesses
          /\ service' = service
          /\ rejection' = rejection]_vars

C14_Witness ==
    /\ inp.op = "sweep"
    /\ reaper.pc = "rmdir"
    /\ reaper.key = NoVal
    /\ Live(reaper.cur) = {}
    /\ \E p \in Pids : proc[p].status = "running"
    /\ Up

\* C15: once the service has terminated after a fatal error, no transcoder
\* process is alive.
C15_NoProcessOutlivesService ==
    service = "down" => \A p \in Pids : proc[p].status # "running"

NotStartedCause == "This stream hasn't even started yet!"

\* a message of a socket in websocketClients that names a registered session:
\* the messages that reach the switch on data.type
Command(e) == e.op = "message" /\ e.role # "none" /\ e.stream \in Ids

\* C16: a start refused as already started or as not from the host, and a
\* keepAlive refused as not started, change nothing: session objects, the two
\* maps, subprocesses, directories, topics and the connection table are as
\* before, the service runs on and the sender is still open and subscribed.
C16_StateConflictMutatesNothing ==
    [][(/\ inp'.op = "message"
        /\ \E cause \in {AlreadyStartedCause, NotHostCause, NotStartedCause} :
              out'[inp'.ws] = {Failure(inp'.type, cause)}) =>
          /\ UNCHANGED <<obj, streams, ffmpegProcesses, proc, dirs, tasks, conn, topics,
                         websocketClients, service>>
          /\ conn'[inp'.ws] = "open"
          /\ inp'.ws \in DOMAIN websocketClients'
          /\ websocketClients'[inp'.ws].stream \in topics'[inp'.ws]]_vars

C16_Witness ==
    /\ inp.op = "message"
    /\ inp.type = "keepAlive"
    /\ out[inp.ws] = {Failure("keepAlive", NotStartedCause)}
    /\ inp.ws \in DOMAIN websocketClients
    /\ obj[inp.stream].state = "stopped"

\* C17: a keepAlive command of a subscribed socket, host or not, is answered
\* with a failure when the session is not started; otherwise the session's
\* keepAlive becomes the current time and the answer is a success.
C17_KeepAliveCommand ==
    (Command(inp) /\ inp.type = "keepAlive" /\ Has(inp.stream)) =>
        IF inp.was # "started"
        THEN out[inp.ws] = {Failure("keepAlive", NotStartedCause)}
        ELSE /\ obj[inp.stream].keepAlive = now
             /\ out[inp.ws] = {Success("keepAlive", "Keep alive registered!")}

C17_Witness ==
    /\ Command(inp)
    /\ inp.type = "keepAlive"
    /\ inp.was = "started"
    /\ now > 0
    /\ obj[inp.stream].keepAlive = now
    /\ out[inp.ws] = {Success("keepAlive", "Keep alive registered!")}

\* C18: a message command without a body fails, writes no keepAlive and
\* reaches nobody but its sender; with a body it sets the session's keepAlive
\* to the current time, whatever the session's state, and every open socket of
\* the session's topic gets exactly one chat event with the sender's username,
\* host flag and country and the body.
C18_MessageCommand ==
    [][(Command(inp') /\ inp'.type = "message"
            /\ \E i \in 1..Len(streams) : streams[i] = inp'.stream) =>
          IF inp'.message = NoVal
          THEN /\ obj' = obj
               /\ out' = [Silence EXCEPT ![inp'.ws] = {Failure("message", "No message!")}]
          ELSE /\ obj'[inp'.stream].keepAlive = now'
               /\ obj'[inp'.stream].state = obj[inp'.stream].state
               /\ \A d \in Conns :
                     out'[d] =
                        IF conn[d] = "open" /\ inp'.stream \in topics[d]
                        THEN {[kind |-> "chat", success |-> TRUE, type |-> "message",
                               cause |-> NoVal, message |-> inp'.message,
                               username |-> websocketClients[inp'.ws].username,
                               host |-> websocketClients[inp'.ws].host,
                               country |-> websocketClients[inp'.ws].country,
                               stream |-> NoVal, state |-> NoVal, viewers |-> 0]}
                        ELSE {}]_vars

C18_Witness ==
    /\ Command(inp)
    /\ inp.type = "message"
    /\ inp.message = "hi"
    /\ inp.was = "stopped"
    /\ now > 0
    /\ obj[inp.stream].keepAlive = now
    /\ \E m \in out[inp.ws] : m.country = "FR" /\ m.host /\ m.username = ValidName(inp.ws)

\* C19: a message of a subscribed socket whose type is none of start,
\* keepAlive, message is answered with a failure that carries the type; the
\* socket stays open, in its topic and in the connection table, and the
\* session objects are unchanged.
C19_UnknownTypeKeepsSubscription ==
    [][(Command(inp') /\ inp'.type \notin {"start", "keepAlive", "message"}
            /\ \E i \in 1..Len(streams) : streams[i] = inp'.stream) =>
          /\ out'[inp'.ws] = {Failure(inp'.type, "This type doesn't exist!")}
          /\ UNCHANGED <<obj, conn, topics, websocketClients, streams>>
          /\ conn'[inp'.ws] = "open"
          /\ inp'.stream \in topics'[inp'.ws]
          /\ inp'.ws \in DOMAIN websocketClients'
          /\ Cardinality({c \in DOMAIN websocketClients' :
                 websocketClients'[c].stream = inp'.stream}) >= 1]_vars

C19_Witness ==
    /\ Command(inp)
    /\ inp.type = "bogus"
    /\ out[inp.ws] = {Failure("bogus", "This type doesn't exist!")}
    /\ conn[inp.ws] = "open"
    /\ inp.ws \in DOMAIN websocketClients
    /\ ViewerCount(inp.stream) >= 1

\* C20: every reply to an inbound message carries success and the type of the
\* message it answers, every failure carries a cause, and a message that
\* cannot be parsed is answered with such a failure.
C20_RepliesEchoType ==
    /\ \A c \in Conns : \A m \in out[c] :
          m.kind \in {"reply", "chat"} =>
              m.type = inp.type /\ (~m.success => m.cause # NoVal)
    /\ inp.op = "garbage" =>
          \E m \in out[inp.ws] : m.kind = "reply" /\ ~m.success /\ m.cause # NoVal

\* a start, keepAlive or message command of a socket in websocketClients that
\* carries no stream field
BareCommand ==
    /\ inp.op = "message"
    /\ inp.role # "none"
    /\ inp.stream = NoVal
    /\ inp.type \in {"start", "keepAlive", "message"}

\* C21: a start, keepAlive or message command that a subscribed socket sends
\* without a stream field is dispatched by its type: it is not answered with
\* "No stream supplied!", and the socket stays open, in its topics and in the
\* connection table.
C21_CommandNeedsNoStream ==
    BareCommand =>
        /\ \A m \in out[inp.ws] : m.cause # "No stream supplied!"
        /\ conn[inp.ws] = "open"
        /\ inp.ws \in DOMAIN websocketClients
        /\ topics[inp.ws] # {}

\* C22: a socket that has had a subscribe accepted is never added to a further
\* topic, and its entry in websocketClients (stream, username, host) never
\* changes while it is there.
C22_SubscribesAtMostOnce ==
    [][\A c \in accepted :
          /\ topics'[c] \subseteq topics[c]
          /\ c \in DOMAIN websocketClients \cap DOMAIN websocketClients' =>
                websocketClients'[c] = websocketClients[c]]_vars

\* C23: a closed socket is in no topic and has no entry in websocketClients
\* (so no sweep counts it), also when it closed during its country lookup;
\* closing a socket that never subscribed changes neither topics nor table.
C23_ClosedSocketIsGone ==
    \A c \in Conns : conn[c] = "closed" =>
        /\ topics[c] = {}
        /\ c \notin DOMAIN websocketClients

\* C25: when a step of the keep-alive sweep has found a started session idle
\* and called killStream for it, the session has no live subprocess and no
\* entry in global.ffmpegProcesses, whatever its viewer count.
C25_IdleStartedSessionKilled ==
    (/\ inp.op \in {"sweep", "swept"}
     /\ reaper.pc = "rmdir"
     /\ obj[reaper.cur].state = "started") =>
        /\ Live(reaper.cur) = {}
        /\ reaper.cur \notin DOMAIN ffmpegProcesses

\* C26: in a keep-alive sweep an idle session is removed and no snapshot of it
\* is delivered; every snapshot delivered is of a session that is not idle and
\* carries a viewer count above 0; and a sweep that finds no idle session
\* delivers to every subscriber of a session the snapshot {id, state, viewers}
\* exactly if the session's viewer count is above 0.
C26_SweepSnapshots ==
    [][inp'.op \in {"sweep", "swept"} =>
          /\ inp'.op = "swept" =>
                /\ \A c \in Conns : \A m \in out'[c] : m.stream # reaper.cur
                /\ \A i \in 1..Len(streams') : streams'[i] # reaper.cur
          /\ \A c \in Conns : \A m \in out'[c] :
                m.kind = "info" /\ m.viewers > 0 /\ ~Idle(m.stream)
          /\ (inp'.op = "sweep" /\ reaper'.pc = "idle") =>
                \A i \in 1..Len(streams) : \A c \in Subscribers(streams[i]) :
                    (ViewerCount(streams[i]) > 0) <=>
                        (Info(streams[i], obj[streams[i]].state, ViewerCount(streams[i]))
                            \in out'[c])]_vars

\* C30: a country lookup that fails leaves the service running and the socket
\* subscribed with an unknown country and the success confirmation; a lookup
\* that answers without a country code does the same.
C30_LookupFailureIsUnknownCountry ==
    /\ inp.op = "fetchfail" =>
          /\ Up
          /\ conn[inp.ws] = "open" =>
                /\ inp.ws \in DOMAIN websocketClients
                /\ websocketClients[inp.ws].stream = inp.stream
                /\ websocketClients[inp.ws].country = NoVal
                /\ out[inp.ws] = {Success(inp.type, "Now watching stream!")}
    /\ (inp.op = "fetch" /\ CountryOf(inp.ws) = NoVal /\ conn[inp.ws] = "open") =>
          /\ websocketClients[inp.ws].country = NoVal
          /\ out[inp.ws] = {Success(inp.type, "Now watching stream!")}

\* the session is torn down: not in global.streams, no subprocess registered,
\* no directory
TornDown(id) == ~Has(id) /\ id \notin DOMAIN ffmpegProcesses /\ id \notin dirs

C27_ExitCleansUpAfterGrace ==
    /\ \A p \in Pids :
          (proc[p].status = "exited") ~> (TornDown(proc[p].id) \/ service = "down")
    /\ [][\A p \in Pids :
             (/\ service' = "up"
              /\ proc[p].status = "exited"
              /\ proc'[p].status = "exited"
              /\ Has(proc[p].id)) =>
                 \E i \in 1..Len(streams') : streams'[i] = proc[p].id]_vars

\* C29: a step of the orphan sweep leaves every entry of global.ffmpegProcesses
\* whose session is in global.streams, and its subprocess, as they were; every
\* entry it removes had no session, and its subprocess is not alive afterwards;
\* the killStream it ran has removed the directory; and when the sweep is
\* through, no entry of global.ffmpegProcesses is without its session.
C29_OrphanSweepReconciles ==
    [][inp'.op \in {"orphans", "orphaned"} =>
          /\ \A id \in DOMAIN ffmpegProcesses :
                (\E i \in 1..Len(streams') : streams'[i] = id) =>
                    /\ id \in DOMAIN ffmpegProcesses'
                    /\ ffmpegProcesses'[id] = ffmpegProcesses[id]
                    /\ proc'[ffmpegProcesses[id]] = proc[ffmpegProcesses[id]]
          /\ \A id \in DOMAIN ffmpegProcesses \ DOMAIN ffmpegProcesses' :
                /\ \A i \in 1..Len(streams') : streams'[i] # id
                /\ proc'[ffmpegProcesses[id]].status # "running"
          /\ inp'.op = "orphaned" => orphans.cur \notin dirs'
          /\ orphans'.pc = "idle" =>
                \A id \in DOMAIN ffmpegProcesses' : \E i \in 1..Len(streams') : streams'[i] = id]_vars

C29_Witness ==
    /\ inp.op = "orphaned"
    /\ orphans.pc = "idle"
    /\ Running
    /\ ~Has(inp.stream)
    /\ inp.stream \notin DOMAIN ffmpegProcesses
    /\ inp.stream \notin dirs
    /\ Cardinality({p \in Pids : proc[p].id = inp.stream /\ proc[p].status = "exited"}) = 2

\* C24: a segment or playlist request whose stream id is not in global.streams
\* when it arrives is answered 404 in the same step, without a look at the
\* disk and without suspending; and whatever is served (200) is a playlist or
\* a segment of an id that an upload has registered.
C24_UnknownStreamNotFound ==
    [][/\ (inp'.op = "segment" /\ ~Has(inp'.stream)) =>
             /\ res' = [status |-> 404, fs |-> FALSE]
             /\ tasks' = tasks
       /\ (inp'.op = "segment" /\ res'.fs) => Has(inp'.stream) /\ Playable(inp'.type)
       /\ (inp'.op = "served" /\ res'.status = 200) =>
             /\ inp'.stream \in created
             /\ Playable(inp'.type)
             /\ \E t \in BagToSet(tasks) : t.kind = "exists" /\ t.stream = inp'.stream]_vars

\* a request for a session that an exit cleanup has removed
C24_Witness ==
    /\ inp.op = "segment"
    /\ inp.stream \in created
    /\ ~Has(inp.stream)
    /\ Playable(inp.type)
    /\ res = [status |-> 404, fs |-> FALSE]

\* C31: a subprocess that ends (normally or not) and its exit cleanup leave the
\* service running and every other session in global.streams; a start whose
\* spawn fails leaves the service running and every session in
\* global.streams, registers no subprocess for the session and does not set
\* its state to started.
C31_ProcessErrorStaysLocal ==
    [][/\ inp'.op \in {"exit", "cleanup"} =>
             /\ service' = service
             /\ \A i \in 1..Len(streams) :
                   streams[i] # inp'.stream => \E j \in 1..Len(streams') : streams'[j] = streams[i]
       /\ inp'.op = "spawnfail" =>
             /\ service' = "up"
             /\ streams' = streams
             /\ ffmpegProcesses' = ffmpegProcesses
             /\ proc' = proc
             /\ obj' = obj]_vars
\* C32: the messages of one socket are handled one after the other: when
\* websocket.message is called with a message of a socket, no handler of an
\* earlier message of that socket is still suspended (in the country lookup of
\* a subscribe, or in startStream).
C32_OneHandlerPerSocket ==
    [][sent' = sent + 1 => \A t \in BagToSet(tasks) : t.ws # inp'.ws]_vars

\* C33: a message of a socket in websocketClients whose session is no longer in
\* global.streams when the message arrives is answered to its sender with one
\* failure and nothing is sent to anyone else; the socket is closed, out of
\* its topics and out of websocketClients; and the handler leaves
\* global.streams, the session objects, the subprocesses, the directories and
\* the suspended handlers as they were.
C33_CommandAfterSessionRemoved ==
    [][(/\ inp'.op = "message"
        /\ inp'.role # "none"
        /\ \A i \in 1..Len(streams) : streams[i] # websocketClients[inp'.ws].stream) =>
          /\ \E m \in out'[inp'.ws] :
                out'[inp'.ws] = {m} /\ m.kind = "reply" /\ ~m.success /\ m.cause # NoVal
          /\ \A d \in Conns \ {inp'.ws} : out'[d] = {}
          /\ conn'[inp'.ws] = "closed"
          /\ topics'[inp'.ws] = {}
          /\ inp'.ws \notin DOMAIN websocketClients'
          /\ UNCHANGED <<streams, obj, proc, ffmpegProcesses, dirs, tasks, service>>]_vars

\* a keepAlive that names a session an exit cleanup has removed
C33_Witness ==
    /\ inp.op = "message"
    /\ inp.role # "none"
    /\ inp.type = "keepAlive"
    /\ inp.stream \in created
    /\ inp.was = "started"
    /\ ~Has(inp.stream)
    /\ out[inp.ws] = {Failure("keepAlive", "Stream ended!")}
    /\ conn[inp.ws] = "closed"
    /\ Spawned # {}
    /\ \A p \in Spawned : proc[p].status = "cleaned"

\* C34: a step that deletes the directory of a session (the rest of a
\* killStream after its rmdir, or an exit cleanup) leaves no entry of that
\* session in global.streams.
C34_DirectoryAndEntryGoTogether ==
    [][\A id \in Ids :
          (id \in dirs /\ id \notin dirs') => \A i \in 1..Len(streams') : streams'[i] # id]_vars

\* the subprocess p is the one global.ffmpegProcesses holds for its session
Registered(p) ==
    proc[p].id \in DOMAIN ffmpegProcesses /\ ffmpegProcesses[proc[p].id] = p

\* C35: every subprocess that is alive is the one registered in
\* global.ffmpegProcesses under its session id, and an exit cleanup removes
\* no entry of global.ffmpegProcesses whose subprocess is still alive.
C35_LiveProcessIsRegistered ==
    /\ [](\A p \in Pids : proc[p].status = "running" => Registered(p))
    /\ [][inp'.op = "cleanup" =>
             \A id \in DOMAIN ffmpegProcesses \ DOMAIN ffmpegProcesses' :
                 proc[ffmpegProcesses[id]].status # "running"]_vars

\* C36: a socket is in at most one topic; an open socket that is in
\* websocketClients is in the topic of the stream recorded there and in no
\* other; and a chat or info broadcast reaches only sockets that are or are
\* about to be recorded as watching the session it belongs to.
C36_OneTopicPerSocket ==
    \A c \in Conns :
        /\ Cardinality(topics[c]) <= 1
        /\ (conn[c] = "open" /\ c \in DOMAIN websocketClients) =>
               topics[c] = {websocketClients[c].stream}
        /\ \A m \in out[c] : m.kind \in {"chat", "info"} =>
               LET id == IF m.kind = "info" THEN m.stream ELSE inp.stream
               IN  \/ c \in DOMAIN websocketClients /\ websocketClients[c].stream = id
                   \/ c \notin DOMAIN websocketClients /\ topics[c] = {id}

\* C37: every session that is in global.streams with state started has a
\* subprocess registered in global.ffmpegProcesses.
C37_StartedHasHandle ==
    \A id \in Ids : (Has(id) /\ obj[id].state = "started") => id \in DOMAIN ffmpegProcesses

\* the username is 3 to 20 characters long and each character is a letter, a
\* digit, a space or one of . - _ @
WellFormedName(u) ==
    /\ Len(u) \in 3..20
    /\ \A i \in 1..Len(u) : u[i] \in {"L", "N", "S", "P"}

InvalidUsernameCause == "Invalid username!"

\* C38: a subscribe of a socket that is not in websocketClients, for a session
\* in global.streams, is accepted (the socket joins the topic, its handler goes
\* on to the country lookup with that username, nothing is sent yet) exactly if
\* its username is well-formed; any other username is answered with one
\* failure, the socket is closed and no handler goes on with that username,
\* and for a username that is not empty the cause is the invalid-username one.
C38_UsernameFormat ==
    (inp.op = "subscribe" /\ inp.role = "none" /\ Has(inp.stream)) =>
        IF WellFormedName(inp.username)
        THEN /\ conn[inp.ws] = "open"
             /\ inp.stream \in topics[inp.ws]
             /\ \E t \in BagToSet(tasks) :
                   t.kind = "fetch" /\ t.ws = inp.ws /\ t.username = inp.username
             /\ out = Silence
        ELSE /\ conn[inp.ws] = "closed"
             /\ topics[inp.ws] = {}
             /\ inp.ws \notin DOMAIN websocketClients
             /\ \A t \in BagToSet(tasks) : ~(t.ws = inp.ws /\ t.username = inp.username)
             /\ \E m \in out[inp.ws] : out[inp.ws] = {m} /\ m.kind = "reply" /\ ~m.success
             /\ inp.username # NoName => out[inp.ws] = {Failure(inp.type, InvalidUsernameCause)}

\* a username of 21 allowed characters is turned down
C38_Witness ==
    /\ inp.op = "subscribe"
    /\ Has(inp.stream)
    /\ Len(inp.username) = 21
    /\ \A i \in 1..21 : inp.username[i] = "L"
    /\ out[inp.ws] = {Failure(NoVal, InvalidUsernameCause)}
    /\ conn[inp.ws] = "closed"

\* the supported tiers, as width x height of a landscape picture
Tiers ==
    {[width |-> 1280, height |-> 720], [width |-> 1920, height |-> 1080],
     [width |-> 2560, height |-> 1440], [width |-> 3840, height |-> 2160],
     [width |-> 7680, height |-> 4320]}

Floor == [width |-> 1280, height |-> 720]
Turned(q) == [width |-> q.height, height |-> q.width]
Longer(v) == IF v.width < v.height THEN v.height ELSE v.width
Shorter(v) == IF v.width < v.height THEN v.width ELSE v.height

\* C39: the quality an upload computes for a source of width x height is a
\* supported tier, turned for a portrait source (width < height) and as it is
\* otherwise; its pixel count is not above the configured maximum; and unless
\* it is 720p, its longer side is not above the source's longer side and its
\* shorter side not above the source's shorter side.
C39_BestQualityIsATier ==
    inp.op = "upload" =>
        LET q == video.quality
            tier == IF video.width < video.height THEN Turned(q) ELSE q
        IN  /\ tier \in Tiers
            /\ tier.width * tier.height <= maxResolution
            /\ tier # Floor => tier.width <= Longer(video) /\ tier.height <= Shorter(video)

\* a portrait 4k source under a maximum of 8k
C39_Witness ==
    /\ inp.op = "upload"
    /\ maxResolution = resolutions["8k"]
    /\ video.width = 2160
    /\ video.height = 3841
    /\ video.quality = [width |-> 2160, height |-> 3840]
====
